---- MODULE Spec2Model ----
(***************************************************************************)
(* Product inventory dashboard: InventoryPage with its FilterPanel,        *)
(* ProductTable, Pagination and ErrorBanner children, the useDebounce      *)
(* hook, and the products query sent to the remote table.                  *)
(*                                                                         *)
(* Text is a sequence of one-character strings.  Time is counted in        *)
(* milliseconds and advances in steps of TickMs.                           *)
(***************************************************************************)
EXTENDS Integers, Sequences, FiniteSets, TLC

(* ---------------------------------------------------------------- bounds *)
MaxRows == 12
MaxEvents == 2
MaxInFlight == 2
MaxSearchLen == 2
MaxPage == 2
TickMs == 200

(* ----------------------------------------------------- program constants *)
ITEMS_PER_PAGE == 10
DELAY == 400

Null == "null"
NaN == -1
NoTimer == -1
All == <<"All">>
ERROR_MESSAGE == "Failed to load products. Please check your connection and try again."

COLUMNS == <<"name", "category", "price", "stock_quantity", "created_at">>
ColKeys == {COLUMNS[i] : i \in 1..Len(COLUMNS)}

(* ------------------------------------------------------------------ text *)
Digits == {"0", "1", "5"}

DigitVal(c) == CASE c = "0" -> 0 [] c = "1" -> 1 [] c = "5" -> 5 [] OTHER -> 0

CharCode(c) ==
    CASE c = "%" -> 37 [] c = "A" -> 65 [] c = "_" -> 95
      [] c = "a" -> 97 [] c = "b" -> 98 [] OTHER -> 0

LowerChar(c) == IF c = "A" THEN "a" ELSE c

Lower(s) == [i \in 1..Len(s) |-> LowerChar(s[i])]

RECURSIVE TextLess(_, _)
TextLess(s, t) ==
    IF t = <<>> THEN FALSE
    ELSE IF s = <<>> THEN TRUE
    ELSE IF CharCode(Head(s)) # CharCode(Head(t))
         THEN CharCode(Head(s)) < CharCode(Head(t))
         ELSE TextLess(Tail(s), Tail(t))

(* literal substring test: the reference meaning of "name contains search" *)
Contains(s, t) ==
    \E k \in 0..(Len(s) - Len(t)) :
        \A i \in 1..Len(t) : s[k + i] = t[i]

(* SQL LIKE: "%" matches any run of characters, "_" exactly one character *)
RECURSIVE LikeMatch(_, _)
LikeMatch(s, p) ==
    IF p = <<>> THEN s = <<>>
    ELSE IF Head(p) = "%"
         THEN \/ LikeMatch(s, Tail(p))
              \/ (s # <<>> /\ LikeMatch(Tail(s), p))
    ELSE IF s = <<>> THEN FALSE
    ELSE /\ (Head(p) = "_" \/ Head(p) = Head(s))
         /\ LikeMatch(Tail(s), Tail(p))

(* ILIKE is LIKE on the case-folded text and pattern *)
Ilike(s, p) == LikeMatch(Lower(s), Lower(p))

(* parseFloat on the price texts: the leading run of digits, NaN if none *)
RECURSIVE DigitPrefix(_)
DigitPrefix(s) ==
    IF s = <<>> \/ Head(s) \notin Digits THEN <<>>
    ELSE <<Head(s)>> \o DigitPrefix(Tail(s))

RECURSIVE DigitsValue(_)
DigitsValue(s) ==
    IF s = <<>> THEN 0
    ELSE DigitsValue(SubSeq(s, 1, Len(s) - 1)) * 10 + DigitVal(s[Len(s)])

parseFloat(s) ==
    IF DigitPrefix(s) = <<>> THEN NaN ELSE DigitsValue(DigitPrefix(s))

(* Math.ceil(a / b) for a >= 0, b > 0 *)
Ceil(a, b) == (a + b - 1) \div b

(* ------------------------------------------------------ the remote table *)
NameList == << <<"a", "b">>, <<"A", "a">>, <<"b", "_", "a">>, <<"b">> >>
CategoryList == << <<"b">>, <<"a">>, <<"b">> >>
PriceList == <<5, 50, 10, 20, 10>>

Pick(list, i) == list[((i - 1) % Len(list)) + 1]

Row(i) ==
    [ id |-> i,
      name |-> Pick(NameList, i),
      category |-> Pick(CategoryList, i),
      price |-> Pick(PriceList, i),
      stock_quantity |-> (i % 2) * 3,
      created_at |-> (i * 7) % 13 ]

Table(n) == [i \in 1..n |-> Row(i)]

Tables == {Table(0), Table(MaxRows)}
(* ------------------------------------------- fetchProducts: query builder *)
(* The values fetchProducts closes over (its useCallback dependencies).    *)
QueryStateOf(pg, srch, cat, minP, maxP, stock, by, ord) ==
    [ page |-> pg, search |-> srch, category |-> cat, minPrice |-> minP,
      maxPrice |-> maxP, inStockOnly |-> stock, sortBy |-> by, sortOrder |-> ord ]

Filter(op, col, val) == [op |-> op, col |-> col, val |-> val]

SearchFilter(st) ==
    IF st.search # <<>>
    THEN << Filter("ilike", "name", <<"%">> \o st.search \o <<"%">>) >>
    ELSE <<>>

CategoryFilter(st) ==
    IF st.category # All THEN << Filter("eq", "category", st.category) >> ELSE <<>>

MinPriceFilter(st) ==
    IF st.minPrice # <<>>
    THEN << Filter("gte", "price", parseFloat(st.minPrice)) >> ELSE <<>>

MaxPriceFilter(st) ==
    IF st.maxPrice # <<>>
    THEN << Filter("lte", "price", parseFloat(st.maxPrice)) >> ELSE <<>>

StockFilter(st) ==
    IF st.inStockOnly THEN << Filter("gt", "stock_quantity", 0) >> ELSE <<>>

RangeFrom(st) == (st.page - 1) * ITEMS_PER_PAGE

RangeTo(st) == RangeFrom(st) + ITEMS_PER_PAGE - 1

Compile(st) ==
    [ filters |-> SearchFilter(st) \o CategoryFilter(st) \o MinPriceFilter(st)
                    \o MaxPriceFilter(st) \o StockFilter(st),
      order |-> st.sortBy,
      ascending |-> (st.sortOrder = "asc"),
      from |-> RangeFrom(st),
      to |-> RangeTo(st) ]

(* ----------------------------------------- the remote side of the query *)
(* numeric comparison as the store does it: NaN is above every number *)
NumGe(a, b) == IF b = NaN THEN a = NaN ELSE (a = NaN \/ a >= b)

NumLe(a, b) == IF a = NaN THEN b = NaN ELSE (b = NaN \/ a <= b)

Matches(row, f) ==
    CASE f.op = "ilike" -> Ilike(row[f.col], f.val)
      [] f.op = "eq" -> row[f.col] = f.val
      [] f.op = "gte" -> NumGe(row[f.col], f.val)
      [] f.op = "lte" -> NumLe(row[f.col], f.val)
      [] f.op = "gt" -> row[f.col] > f.val

MatchesAll(row, filters) == \A i \in 1..Len(filters) : Matches(row, filters[i])

Selected(tbl, filters) == SelectSeq(tbl, LAMBDA r : MatchesAll(r, filters))

KeyLess(a, b, col) ==
    IF col \in {"name", "category"} THEN TextLess(a[col], b[col]) ELSE a[col] < b[col]

(* single-key order; rows with equal keys keep their physical order *)
Before(a, b, col, ascending) ==
    IF KeyLess(a, b, col) THEN ascending
    ELSE IF KeyLess(b, a, col) THEN ~ascending
    ELSE a.id < b.id

Ordered(rows, col, ascending) ==
    LET S == {rows[i] : i \in 1..Len(rows)}
        rank == [r \in S |-> Cardinality({x \in S : Before(x, r, col, ascending)})]
    IN  [k \in 1..Len(rows) |-> CHOOSE r \in S : rank[r] = k - 1]

Window(rows, from, to) ==
    IF from >= Len(rows) THEN <<>>
    ELSE SubSeq(rows, from + 1, IF to + 1 < Len(rows) THEN to + 1 ELSE Len(rows))

(* a nullable field of a response: None is null, Some(x) holds x *)
None == {}

Some(x) == {x}

Get(opt) == CHOOSE x \in opt : TRUE

(* the store's orderings of each table, by column and direction *)
OrderedTables ==
    [t \in Tables |-> [col \in ColKeys |-> [asc \in BOOLEAN |-> Ordered(t, col, asc)]]]

(* one round trip: the window of the ordered matches and their exact count *)
Respond(tbl, q) ==
    LET hits == Selected(OrderedTables[tbl][q.order][q.ascending], q.filters)
    IN  [ data |-> Some(Window(hits, q.from, q.to)),
          count |-> Some(Len(hits)),
          error |-> None ]

(* the remote call resolving with an error object *)
Failure == [data |-> None, count |-> None, error |-> Some("error")]

(* data || [] and count || 0 *)
DecodeData(data) == IF data = None THEN <<>> ELSE Get(data)

DecodeCount(count) == IF count = None \/ Get(count) = 0 THEN 0 ELSE Get(count)

(* [...new Set(data.map(d => d.category))] of the category-ordered rows *)
RECURSIVE Dedup(_)
Dedup(s) ==
    IF s = <<>> THEN <<>>
    ELSE LET rest == Dedup(SubSeq(s, 1, Len(s) - 1))
         IN  IF \E i \in 1..Len(rest) : rest[i] = s[Len(s)]
             THEN rest ELSE Append(rest, s[Len(s)])

CategoryColumn(tbl) ==
    LET o == OrderedTables[tbl]["category"][TRUE] IN [i \in 1..Len(o) |-> o[i].category]

UniqueCategories(tbl) == Dedup(CategoryColumn(tbl))
(* ------------------------------------------------------------- the state *)
VARIABLES
    table,              \* the remote products relation (fixed during a run)
    products, loading, error, totalCount, page, categories,
    search, category, minPrice, maxPrice, inStockOnly,
    sortBy, sortOrder,
    debouncedSearch, debouncedMinPrice, debouncedMaxPrice,
    timer,              \* per debounced field: ms left on its pending timer, or NoTimer
    elapsed,            \* per debounced field: ms since its timer was armed
    timerQueue,         \* the fields with a pending timer, in the order they were armed
    burst,              \* per debounced field: changes since its timer was last idle
    inflight,           \* products requests awaiting their response
    catFetch,           \* the mount-time category request: "pending", "done" or "failed"
    nextId,             \* number of products requests issued so far
    lastOk,             \* the request whose successful response arrived last
    newestOk,           \* highest id among the requests that completed successfully
    lastFailed,         \* the request whose error result arrived last
    uncaught,           \* async functions that ended in an unhandled rejection
    events,             \* number of user events handled so far
    lastEvent,          \* the last user event handled, with its argument
    editFetches         \* requests issued for the one edit made since all timers were idle

vars ==
    << table, products, loading, error, totalCount, page, categories,
       search, category, minPrice, maxPrice, inStockOnly, sortBy, sortOrder,
       debouncedSearch, debouncedMinPrice, debouncedMaxPrice, timer, elapsed,
       timerQueue, burst, inflight, catFetch, nextId, lastOk, newestOk, lastFailed,
       uncaught, events, lastEvent, editFetches >>

(* the debounced fields, in the order InventoryPage calls useDebounce *)
HookOrder == <<"search", "minPrice", "maxPrice">>

Fields == {HookOrder[i] : i \in 1..Len(HookOrder)}

(* what the user can type or pick in the running page *)
SearchInputs == {<<>>, <<"a">>, <<"_">>}
PriceInputs == {<<>>, <<"1", "0">>}

(* the dependency list of fetchProducts *)
Deps ==
    QueryStateOf(page, debouncedSearch, category, debouncedMinPrice,
                 debouncedMaxPrice, inStockOnly, sortBy, sortOrder)

totalPages == Ceil(totalCount, ITEMS_PER_PAGE)

TimersIdle == \A f \in Fields : timer[f] = NoTimer

Min(a, b) == IF a < b THEN a ELSE b

Max(a, b) == IF a > b THEN a ELSE b

(* ------------------------------------------------------------ useDebounce *)
(* a timer armed with no delay at all *)
ArmedDelay_Immediate == DELAY - DELAY

(* the effect of useDebounce: a changed value clears the timer and arms a new one *)
ArmedDelay == DELAY

DebounceEffect ==
    LET changed == [f \in Fields |->
                      CASE f = "search" -> search' # search
                        [] f = "minPrice" -> minPrice' # minPrice
                        [] f = "maxPrice" -> maxPrice' # maxPrice]
    IN  /\ timer' = [f \in Fields |-> IF changed[f] THEN ArmedDelay ELSE timer[f]]
        /\ elapsed' = [f \in Fields |-> IF changed[f] THEN 0 ELSE elapsed[f]]
        /\ timerQueue' = SelectSeq(timerQueue, LAMBDA f : ~changed[f])
                            \o SelectSeq(HookOrder, LAMBDA f : changed[f])
        /\ burst' = [f \in Fields |->
                        IF ~changed[f] THEN burst[f]
                        ELSE IF timer[f] = NoTimer THEN 1 ELSE burst[f] + 1]

(* --------------------------------------------------------- fetchProducts *)
(* the synchronous part of fetchProducts, up to the await *)
StartFetch(st) ==
    /\ Cardinality(inflight) < MaxInFlight
    /\ inflight' = inflight \cup {[id |-> nextId + 1, st |-> st]}
    /\ nextId' = nextId + 1
    /\ loading' = TRUE
    /\ error' = Null

(* useEffect(() => { fetchProducts(); }, [fetchProducts]) after a render *)
FetchEffect ==
    IF Deps' # Deps
    THEN StartFetch(Deps')
    ELSE UNCHANGED <<inflight, nextId, loading, error>>

Issued == nextId' - nextId

Event(name, arg) == [name |-> name, arg |-> arg]

(* one more user event, within the bound of the model *)
UserEvent(name, arg) ==
    /\ events < MaxEvents
    /\ events' = events + 1
    /\ lastEvent' = Event(name, arg)

(* nothing pending, and the page shown is one of the pages of the result *)
Settled ==
    /\ TimersIdle
    /\ inflight = {}
    /\ page <= Max(1, totalPages)

(* a user edit: begins the count when the page was settled, else ends it *)
TrackEdit(name, arg) ==
    /\ UserEvent(name, arg)
    /\ editFetches' = IF Settled THEN Issued ELSE -1

UNCHANGED_Data == UNCHANGED <<table, products, totalCount, categories, catFetch,
                              lastOk, newestOk, lastFailed, uncaught>>

UNCHANGED_Debounced == UNCHANGED <<debouncedSearch, debouncedMinPrice, debouncedMaxPrice>>

(* ------------------------------------------------------------ FilterPanel *)
ChangeSearch(v) ==
    /\ v # search
    /\ search' = v
    /\ page' = 1
    /\ UNCHANGED <<category, minPrice, maxPrice, inStockOnly, sortBy, sortOrder>>
    /\ UNCHANGED_Debounced
    /\ DebounceEffect
    /\ FetchEffect
    /\ TrackEdit("setSearch", "")
    /\ UNCHANGED_Data

CategoryOptions == {All} \cup {categories[i] : i \in 1..Len(categories)}

ChangeCategory(v) ==
    /\ v # category
    /\ category' = v
    /\ page' = 1
    /\ UNCHANGED <<search, minPrice, maxPrice, inStockOnly, sortBy, sortOrder>>
    /\ UNCHANGED_Debounced
    /\ DebounceEffect
    /\ FetchEffect
    /\ TrackEdit("setCategory", "")
    /\ UNCHANGED_Data

ChangeMinPrice(v) ==
    /\ v # minPrice
    /\ minPrice' = v
    /\ UNCHANGED <<page, search, category, maxPrice, inStockOnly, sortBy, sortOrder>>
    /\ UNCHANGED_Debounced
    /\ DebounceEffect
    /\ FetchEffect
    /\ TrackEdit("setMinPrice", "")
    /\ UNCHANGED_Data

ChangeMaxPrice(v) ==
    /\ v # maxPrice
    /\ maxPrice' = v
    /\ UNCHANGED <<page, search, category, minPrice, inStockOnly, sortBy, sortOrder>>
    /\ UNCHANGED_Debounced
    /\ DebounceEffect
    /\ FetchEffect
    /\ TrackEdit("setMaxPrice", "")
    /\ UNCHANGED_Data

ToggleInStock ==
    /\ inStockOnly' = ~inStockOnly
    /\ UNCHANGED <<page, search, category, minPrice, maxPrice, sortBy, sortOrder>>
    /\ UNCHANGED_Debounced
    /\ DebounceEffect
    /\ FetchEffect
    /\ TrackEdit("setInStockOnly", "")
    /\ UNCHANGED_Data

(* ---------------------------------------------------------- InventoryPage *)
(* clearFilters that also puts the sort back to name ascending *)
clearFilters_ResetsSort ==
    /\ search' = <<>>
    /\ category' = All
    /\ minPrice' = <<>>
    /\ maxPrice' = <<>>
    /\ inStockOnly' = FALSE
    /\ page' = 1
    /\ sortBy' = "name"
    /\ sortOrder' = "asc"
    /\ UNCHANGED_Debounced
    /\ DebounceEffect
    /\ FetchEffect
    /\ UserEvent("clearFilters", "")
    /\ editFetches' = -1
    /\ UNCHANGED_Data

clearFilters ==
    /\ search' = <<>>
    /\ category' = All
    /\ minPrice' = <<>>
    /\ maxPrice' = <<>>
    /\ inStockOnly' = FALSE
    /\ page' = 1
    /\ UNCHANGED <<sortBy, sortOrder>>
    /\ UNCHANGED_Debounced
    /\ DebounceEffect
    /\ FetchEffect
    /\ UserEvent("clearFilters", "")
    /\ editFetches' = -1
    /\ UNCHANGED_Data

(* one call of fetchProducts with the values it currently closes over *)
fetchProducts(name) ==
    /\ StartFetch(Deps)
    /\ UNCHANGED <<page, search, category, minPrice, maxPrice, inStockOnly,
                   sortBy, sortOrder, timer, elapsed, timerQueue, burst>>
    /\ UNCHANGED_Debounced
    /\ UserEvent(name, "")
    /\ editFetches' = -1
    /\ UNCHANGED_Data

(* the Retry button of ErrorBanner, rendered while error is set: onRetry = fetchProducts *)
Retry ==
    /\ error # Null
    /\ fetchProducts("onRetry")

(* ----------------------------------------------------------- ProductTable *)
(* the toggle without the test for the active column *)
NextSortOrder_IgnoresColumn(colKey) ==
    IF sortOrder = "asc" THEN "desc" ELSE "asc"

NextSortOrder(colKey) ==
    IF sortBy = colKey /\ sortOrder = "asc" THEN "desc" ELSE "asc"

(* the page after a header click: handleSort does not call setPage *)
PageAfterSort_Reset == Min(1, page)

PageAfterSort == page

handleSort(colKey) ==
    /\ sortOrder' = NextSortOrder(colKey)
    /\ sortBy' = colKey
    /\ page' = PageAfterSort
    /\ UNCHANGED <<search, category, minPrice, maxPrice, inStockOnly>>
    /\ UNCHANGED_Debounced
    /\ DebounceEffect
    /\ FetchEffect
    /\ TrackEdit("handleSort", colKey)
    /\ UNCHANGED_Data

(* ------------------------------------------------------------- Pagination *)
PrevDisabled == page = 1

NextDisabled == page = totalPages

(* the label between the buttons: "Page {page} of {totalPages}" *)
PageLabel == <<page, totalPages>>

PreviousPage ==
    /\ ~PrevDisabled
    /\ page' = page - 1
    /\ UNCHANGED <<search, category, minPrice, maxPrice, inStockOnly, sortBy, sortOrder>>
    /\ UNCHANGED_Debounced
    /\ DebounceEffect
    /\ FetchEffect
    /\ TrackEdit("previousPage", "")
    /\ UNCHANGED_Data

NextPage ==
    /\ ~NextDisabled
    /\ page' = page + 1
    /\ UNCHANGED <<search, category, minPrice, maxPrice, inStockOnly, sortBy, sortOrder>>
    /\ UNCHANGED_Debounced
    /\ DebounceEffect
    /\ FetchEffect
    /\ TrackEdit("nextPage", "")
    /\ UNCHANGED_Data

(* ------------------------------------------------------ timers and clock *)
(* the setTimeout callback of useDebounce: setDebouncedValue(value) *)
TimerFire(f) ==
    /\ timerQueue # <<>>
    /\ f = Head(timerQueue)
    /\ timer[f] = 0
    /\ debouncedSearch' = IF f = "search" THEN search ELSE debouncedSearch
    /\ debouncedMinPrice' = IF f = "minPrice" THEN minPrice ELSE debouncedMinPrice
    /\ debouncedMaxPrice' = IF f = "maxPrice" THEN maxPrice ELSE debouncedMaxPrice
    /\ timer' = [timer EXCEPT ![f] = NoTimer]
    /\ elapsed' = [elapsed EXCEPT ![f] = 0]
    /\ timerQueue' = Tail(timerQueue)
    /\ UNCHANGED burst
    /\ UNCHANGED <<page, search, category, minPrice, maxPrice, inStockOnly,
                   sortBy, sortOrder>>
    /\ FetchEffect
    /\ editFetches' = IF editFetches = -1 THEN -1 ELSE editFetches + Issued
    /\ UNCHANGED <<events, lastEvent>>
    /\ UNCHANGED_Data

Tick ==
    /\ \E f \in Fields : timer[f] > 0
    /\ timer' = [f \in Fields |->
                    IF timer[f] > 0 THEN Max(0, timer[f] - TickMs) ELSE timer[f]]
    /\ elapsed' = [f \in Fields |->
                    IF timer[f] # NoTimer THEN Min(DELAY, elapsed[f] + TickMs)
                    ELSE elapsed[f]]
    /\ UNCHANGED <<table, products, loading, error, totalCount, page, categories,
                   search, category, minPrice, maxPrice, inStockOnly, sortBy,
                   sortOrder, timerQueue, burst, inflight, catFetch, nextId, lastOk, newestOk,
                   lastFailed, uncaught, events, lastEvent, editFetches>>
    /\ UNCHANGED_Debounced

(* ------------------------------------- fetchProducts after the round trip *)
Outcomes == {"ok", "error", "reject"}

(* the response the await yields when the call resolves *)
Response(r, outcome) ==
    IF outcome = "ok" THEN Respond(table, Compile(r.st)) ELSE Failure

(* OnResolved with token fencing: a response is applied only if its request *)
(* is the latest one issued *)
OnResolved_Fenced(r, resp) ==
    /\ IF resp.error # None
       THEN /\ error' = ERROR_MESSAGE
            /\ UNCHANGED <<products, totalCount>>
       ELSE /\ products' = IF r.id = nextId THEN DecodeData(resp.data) ELSE products
            /\ totalCount' = IF r.id = nextId THEN DecodeCount(resp.count) ELSE totalCount
            /\ UNCHANGED error
    /\ loading' = FALSE
    /\ UNCHANGED uncaught

(* lines after the await: the error branch or the data branch, then setLoading(false) *)
OnResolved(r, resp) ==
    /\ IF resp.error # None
       THEN /\ error' = ERROR_MESSAGE
            /\ UNCHANGED <<products, totalCount>>
       ELSE /\ products' = DecodeData(resp.data)
            /\ totalCount' = DecodeCount(resp.count)
            /\ UNCHANGED error
    /\ loading' = FALSE
    /\ UNCHANGED uncaught

(* the await throws: nothing after it runs and the rejection is unhandled *)
OnRejected(r) ==
    /\ uncaught' = uncaught \cup {"fetchProducts"}
    /\ UNCHANGED <<products, totalCount, error, loading>>

FetchDone(r, outcome) ==
    /\ r \in inflight
    /\ inflight' = inflight \ {r}
    /\ IF outcome = "reject" THEN OnRejected(r) ELSE OnResolved(r, Response(r, outcome))
    /\ lastOk' = IF outcome = "ok" THEN r ELSE lastOk
    /\ newestOk' = IF outcome = "ok" THEN Max(newestOk, r.id) ELSE newestOk
    /\ lastFailed' = IF outcome = "error" THEN r ELSE lastFailed
    /\ UNCHANGED <<table, page, categories, search, category, minPrice, maxPrice,
                   inStockOnly, sortBy, sortOrder, timer, elapsed, timerQueue, burst,
                   catFetch,
                   nextId, events, lastEvent, editFetches>>
    /\ UNCHANGED_Debounced

(* ------------------------------------------------------- fetchCategories *)
(* fetchCategories reporting its failure in the products error banner *)
CategoriesDone_SurfacesError(outcome) ==
    /\ catFetch = "pending"
    /\ catFetch' = IF outcome = "ok" THEN "done" ELSE "failed"
    /\ categories' = IF outcome = "ok" THEN UniqueCategories(table) ELSE categories
    /\ uncaught' = IF outcome = "reject" THEN uncaught \cup {"fetchCategories"}
                   ELSE uncaught
    /\ error' = IF outcome = "ok" THEN error ELSE ERROR_MESSAGE
    /\ UNCHANGED <<table, products, loading, totalCount, page,
                   search, category, minPrice, maxPrice, inStockOnly, sortBy,
                   sortOrder, timer, elapsed, timerQueue, burst, inflight, nextId,
                   lastOk, newestOk, lastFailed,
                   events, lastEvent, editFetches>>
    /\ UNCHANGED_Debounced

(* the await of fetchCategories returns: data is used if present, else nothing *)
CategoriesDone(outcome) ==
    /\ catFetch = "pending"
    /\ catFetch' = IF outcome = "ok" THEN "done" ELSE "failed"
    /\ categories' = IF outcome = "ok" THEN UniqueCategories(table) ELSE categories
    /\ uncaught' = IF outcome = "reject" THEN uncaught \cup {"fetchCategories"}
                   ELSE uncaught
    /\ UNCHANGED <<table, products, loading, error, totalCount, page,
                   search, category, minPrice, maxPrice, inStockOnly, sortBy,
                   sortOrder, timer, elapsed, timerQueue, burst, inflight, nextId,
                   lastOk, newestOk, lastFailed,
                   events, lastEvent, editFetches>>
    /\ UNCHANGED_Debounced

(* ------------------------------------------------------------------ mount *)
DefaultState == QueryStateOf(1, <<>>, All, <<>>, <<>>, FALSE, "name", "asc")

(* after the first render and its effects: both requests are out, timers armed *)
Init ==
    /\ table \in Tables
    /\ products = <<>>
    /\ loading = TRUE
    /\ error = Null
    /\ totalCount = 0
    /\ page = 1
    /\ categories = <<>>
    /\ search = <<>>
    /\ category = All
    /\ minPrice = <<>>
    /\ maxPrice = <<>>
    /\ inStockOnly = FALSE
    /\ sortBy = "name"
    /\ sortOrder = "asc"
    /\ debouncedSearch = <<>>
    /\ debouncedMinPrice = <<>>
    /\ debouncedMaxPrice = <<>>
    /\ timer = [f \in Fields |-> DELAY]
    /\ elapsed = [f \in Fields |-> 0]
    /\ timerQueue = HookOrder
    /\ burst = [f \in Fields |-> 0]
    /\ inflight = {[id |-> 1, st |-> DefaultState]}
    /\ catFetch = "pending"
    /\ nextId = 1
    /\ lastOk = [id |-> 0, st |-> DefaultState]
    /\ newestOk = 0
    /\ lastFailed = [id |-> 0, st |-> DefaultState]
    /\ uncaught = {}
    /\ events = 0
    /\ lastEvent = Event("mount", "")
    /\ editFetches = -1

Next ==
    \/ \E v \in SearchInputs : ChangeSearch(v)
    \/ \E v \in CategoryOptions : ChangeCategory(v)
    \/ \E v \in PriceInputs : ChangeMinPrice(v)
    \/ \E v \in PriceInputs : ChangeMaxPrice(v)
    \/ ToggleInStock
    \/ clearFilters
    \/ Retry
    \/ \E c \in ColKeys : handleSort(c)
    \/ PreviousPage
    \/ NextPage
    \/ \E f \in Fields : TimerFire(f)
    \/ Tick
    \/ \E r \in inflight, o \in Outcomes : FetchDone(r, o)
    \/ \E o \in Outcomes : CategoriesDone(o)

Spec == Init /\ [][Next]_vars
(* ------------------------------------------- fetchProducts on its own *)
(* every text of at most MaxSearchLen characters the search box can hold *)
SearchAlphabet == {"a", "A", "_", "%"}

RECURSIVE TextsUpTo(_, _)
TextsUpTo(chars, n) ==
    IF n = 0 THEN {<<>>}
    ELSE LET shorter == TextsUpTo(chars, n - 1)
         IN  shorter \cup {Append(t, c) : t \in shorter, c \in chars}

SearchTexts == TextsUpTo(SearchAlphabet, MaxSearchLen)

PriceTexts == {<<>>, <<"1", "0">>, <<"5", "0">>, <<"x">>}

Categories == {All, <<"a">>, <<"b">>}

(* a settled page holding any query state, about to call fetchProducts once *)
InitCompile ==
    /\ table \in Tables
    /\ products = <<>>
    /\ loading = FALSE
    /\ error = Null
    /\ totalCount = 0
    /\ page \in 1..MaxPage
    /\ categories = UniqueCategories(table)
    /\ search \in SearchTexts
    /\ category \in Categories
    /\ minPrice \in PriceTexts
    /\ maxPrice \in PriceTexts
    /\ inStockOnly \in BOOLEAN
    /\ sortBy \in ColKeys
    /\ sortOrder \in {"asc", "desc"}
    /\ debouncedSearch = search
    /\ debouncedMinPrice = minPrice
    /\ debouncedMaxPrice = maxPrice
    /\ timer = [f \in Fields |-> NoTimer]
    /\ elapsed = [f \in Fields |-> 0]
    /\ timerQueue = <<>>
    /\ burst = [f \in Fields |-> 0]
    /\ inflight = {}
    /\ catFetch = "done"
    /\ nextId = 0
    /\ lastOk = [id |-> 0, st |-> DefaultState]
    /\ newestOk = 0
    /\ lastFailed = [id |-> 0, st |-> DefaultState]
    /\ uncaught = {}
    /\ events = MaxEvents - 1
    /\ lastEvent = Event("mount", "")
    /\ editFetches = -1

NextCompile ==
    \/ fetchProducts("fetchProducts")
    \/ \E r \in inflight, o \in Outcomes : FetchDone(r, o)

SpecCompile == InitCompile /\ [][NextCompile]_vars
(* ------------------------------------ App: the single-file component *)
(* the header labels of the table in App, in display order *)
Headers == <<"Name", "Category", "Price", "Stock", "Created At">>

HeaderSet == {Headers[i] : i \in 1..Len(Headers)}

(* header.toLowerCase().replace(' ', '_') *)
HeaderCol(header) ==
    CASE header = "Name" -> "name"
      [] header = "Category" -> "category"
      [] header = "Price" -> "price"
      [] header = "Stock" -> "stock"
      [] header = "Created At" -> "created_at"

(* col === 'stock' ? 'stock_quantity' : col === 'name' ? 'name' : col *)
StoredCol(col) ==
    IF col = "stock" THEN "stock_quantity" ELSE IF col = "name" THEN "name" ELSE col

(* the dependency list of fetchProducts in App: the inputs are not debounced *)
AppDeps ==
    QueryStateOf(page, search, category, minPrice, maxPrice, inStockOnly,
                 sortBy, sortOrder)

AppFetchEffect ==
    IF AppDeps' # AppDeps
    THEN StartFetch(AppDeps')
    ELSE UNCHANGED <<inflight, nextId, loading, error>>

(* the onClick of a column header *)
AppHeaderClick(header) ==
    LET col == HeaderCol(header)
    IN  /\ sortOrder' = IF sortBy = col /\ sortOrder = "asc" THEN "desc" ELSE "asc"
        /\ sortBy' = StoredCol(col)
        /\ UNCHANGED <<page, search, category, minPrice, maxPrice, inStockOnly,
                       timer, elapsed, timerQueue, burst>>
        /\ UNCHANGED_Debounced
        /\ AppFetchEffect
        /\ UserEvent("headerClick", header)
        /\ editFetches' = -1
        /\ UNCHANGED_Data

(* App showing a loaded page under any sort and some of the filters *)
InitApp ==
    /\ table \in Tables
    /\ products = <<>>
    /\ loading = FALSE
    /\ error = Null
    /\ totalCount = 0
    /\ page \in 1..MaxPage
    /\ categories = UniqueCategories(table)
    /\ search = <<>>
    /\ category \in Categories
    /\ minPrice = <<>>
    /\ maxPrice = <<>>
    /\ inStockOnly \in BOOLEAN
    /\ sortBy \in ColKeys
    /\ sortOrder \in {"asc", "desc"}
    /\ debouncedSearch = search
    /\ debouncedMinPrice = minPrice
    /\ debouncedMaxPrice = maxPrice
    /\ timer = [f \in Fields |-> NoTimer]
    /\ elapsed = [f \in Fields |-> 0]
    /\ timerQueue = <<>>
    /\ burst = [f \in Fields |-> 0]
    /\ inflight = {}
    /\ catFetch = "done"
    /\ nextId = 0
    /\ lastOk = [id |-> 0, st |-> DefaultState]
    /\ newestOk = 0
    /\ lastFailed = [id |-> 0, st |-> DefaultState]
    /\ uncaught = {}
    /\ events = 0
    /\ lastEvent = Event("mount", "")
    /\ editFetches = -1

NextApp ==
    \/ \E h \in HeaderSet : AppHeaderClick(h)
    \/ \E r \in inflight, o \in Outcomes : FetchDone(r, o)

SpecApp == InitApp /\ [][NextApp]_vars
(* ================================================================ claims *)
(* a step that handles the named user event *)
Handled(name) == events' = events + 1 /\ lastEvent'.name = name

(* the result the remote returns for a request *)
ResultRows(r) == DecodeData(Respond(table, Compile(r.st)).data)

ResultCount(r) == DecodeCount(Respond(table, Compile(r.st)).count)

(* C1: every user action that changes one of the five filter fields (search, *)
(* category, minPrice, maxPrice, inStockOnly) leaves page = 1 right after it. *)
(* Stated from the pages the pagination controls are meant to allow.          *)
C1_FilterChangeResetsPage ==
    [][ (/\ page <= totalPages
         /\ \/ search' # search
            \/ category' # category
            \/ minPrice' # minPrice
            \/ maxPrice' # maxPrice
            \/ inStockOnly' # inStockOnly) => page' = 1 ]_vars

C3_NextDisabledWhenEmpty ==
    (lastOk.id # 0 /\ ResultCount(lastOk) = 0) => NextDisabled

(* C4: the successful response that arrived last is the one displayed, whatever *)
(* the order in which the requests were issued: no result is dropped as stale. *)
C4_LastCompletedIsDisplayed ==
    lastOk.id # 0 =>
        /\ products = ResultRows(lastOk)
        /\ totalCount = ResultCount(lastOk)

(* the displayed rows come from a request older than one already completed, *)
(* and differ from what the newest state asks for *)
C4_StaleResultDisplayed ==
    /\ lastOk.id # 0
    /\ lastOk.id < newestOk
    /\ inflight = {}
    /\ lastOk.st # Deps
    /\ products = ResultRows(lastOk)
    /\ products # ResultRows([id |-> 0, st |-> Deps])

(* C5: one user edit made on a settled page has caused exactly one products *)
(* request, immediate or debounced, once the timers are idle again. *)
C5_OneFetchPerEdit ==
    (editFetches # -1 /\ TimersIdle) => editFetches = 1
(* C6: a debounced value changes only to the latest input, only when a full *)
(* quiet period has passed since the last change of that input, and with no *)
(* timer pending it equals the input: no earlier value of a burst is taken. *)
DebouncedFollows(value, debounced, f) ==
    /\ debounced' # debounced =>
          /\ debounced' = value
          /\ value' = value
          /\ elapsed[f] >= DELAY
    /\ timer'[f] = NoTimer => debounced' = value'

C6_DebounceTakesOnlyFinalValue ==
    [][ /\ DebouncedFollows(search, debouncedSearch, "search")
        /\ DebouncedFollows(minPrice, debouncedMinPrice, "minPrice")
        /\ DebouncedFollows(maxPrice, debouncedMaxPrice, "maxPrice") ]_vars

(* a burst of two search changes has ended and its final value was propagated *)
C6_BurstPropagated ==
    /\ burst["search"] >= 2
    /\ timer["search"] = NoTimer
    /\ search # <<>>
    /\ debouncedSearch = search

(* C7: a products fetch that fails, by an error result or by a rejection, sets *)
(* error to the fixed message, keeps products and totalCount, sets loading to *)
(* false and leaves no unhandled rejection. *)
FetchFailedStep ==
    /\ nextId' = nextId
    /\ inflight' # inflight
    /\ lastOk' = lastOk

C7_FailureIsCaught ==
    [][ FetchFailedStep =>
          /\ error' = ERROR_MESSAGE
          /\ products' = products
          /\ totalCount' = totalCount
          /\ loading' = FALSE
          /\ uncaught' = uncaught ]_vars

(* C8: a header click makes the clicked column the sort field; on the active *)
(* column it flips the direction, on any other column it sets ascending. *)
Flipped(order) == IF order = "asc" THEN "desc" ELSE "asc"

C8_HandleSortTogglesOrActivates ==
    [][ Handled("handleSort") =>
          /\ lastEvent'.arg \in ColKeys
          /\ sortBy' = lastEvent'.arg
          /\ sortOrder' = IF sortBy = lastEvent'.arg THEN Flipped(sortOrder) ELSE "asc" ]_vars

(* created_at was clicked twice: the first click made it the active column, *)
(* ascending; the second, on the active column, flipped it to descending *)
C8_ActivatedThenToggled ==
    /\ lastEvent = Event("handleSort", "created_at")
    /\ sortBy = "created_at"
    /\ sortOrder = "desc"

(* C9: a header click leaves page and the five filter fields unchanged. *)
C9_SortKeepsPageAndFilters ==
    [][ Handled("handleSort") =>
          /\ page' = page
          /\ search' = search /\ category' = category
          /\ minPrice' = minPrice /\ maxPrice' = maxPrice
          /\ inStockOnly' = inStockOnly ]_vars

(* a header was clicked on page 2 of a two-page result and page is still 2 *)
C9_SortedOnSecondPage ==
    /\ lastEvent.name = "handleSort"
    /\ page = 2
    /\ totalPages = 2
    /\ sortBy # "name"
(* ---- the reference result of a products fetch, from the compilation rules *)
Finite(text) == text # <<>> /\ parseFloat(text) # NaN

RefMatches(row, st) ==
    /\ st.search # <<>> => Contains(Lower(row.name), Lower(st.search))
    /\ st.category # All => row.category = st.category
    /\ Finite(st.minPrice) => row.price >= parseFloat(st.minPrice)
    /\ Finite(st.maxPrice) => row.price <= parseFloat(st.maxPrice)
    /\ st.inStockOnly => row.stock_quantity > 0

RefSelected(tbl, st) == SelectSeq(tbl, LAMBDA row : RefMatches(row, st))

RefRows(tbl, st) ==
    Window(Ordered(RefSelected(tbl, st), st.sortBy, st.sortOrder = "asc"),
           (st.page - 1) * 10, (st.page - 1) * 10 + 9)

RefCount(tbl, st) == Len(RefSelected(tbl, st))

(* both price bounds are unset or parse to a number *)
PricesParse(st) ==
    /\ st.minPrice = <<>> \/ Finite(st.minPrice)
    /\ st.maxPrice = <<>> \/ Finite(st.maxPrice)

(* C10: one call of fetchProducts issues one request, and its successful result *)
(* is the reference: the rows (page-1)*10 .. (page-1)*10+9 of the table filtered *)
(* by the active predicates and ordered by the sort, at most 10 of them, with    *)
(* totalCount the number of matching rows.                                       *)
C10_FetchMatchesReference ==
    (lastOk.id # 0 /\ PricesParse(lastOk.st)) =>
        /\ nextId = 1
        /\ products = RefRows(table, lastOk.st)
        /\ Len(products) <= 10
        /\ totalCount = RefCount(table, lastOk.st)

(* the same with no "%" or "_" in the search text *)
NoWildcard(text) == \A i \in 1..Len(text) : text[i] \notin {"%", "_"}

FetchMatchesReferenceWithoutWildcards ==
    (lastOk.id # 0 /\ PricesParse(lastOk.st) /\ NoWildcard(lastOk.st.search)) =>
        /\ nextId = 1
        /\ products = RefRows(table, lastOk.st)
        /\ Len(products) <= 10
        /\ totalCount = RefCount(table, lastOk.st)

(* ---- the price bounds of a compiled query *)
HasFilter(q, op) == \E i \in 1..Len(q.filters) : q.filters[i].op = op

PriceBoundWhenTextParses ==
    \A r \in inflight :
        PricesParse(r.st) =>
            /\ HasFilter(Compile(r.st), "gte") <=> Finite(r.st.minPrice)
            /\ HasFilter(Compile(r.st), "lte") <=> Finite(r.st.maxPrice)

(* C12: with no products request in flight and a non-empty result, the page *)
(* shown is one of the pages of that result: 1 <= page <= ceil(totalCount / 10). *)
C12_PageWithinTotalPages ==
    (inflight = {} /\ totalCount > 0) =>
        (1 <= page /\ page <= Ceil(totalCount, 10))

(* C13: a products request is issued only when a value fetchProducts closes  *)
(* over has changed or Retry was clicked, so a failure is never followed by  *)
(* a request of its own accord; a Retry click issues one request, compiled   *)
(* to the query of the request that failed, and changes no field of the      *)
(* query state.                                                              *)
C13_RetryReissuesFailedQuery ==
    [][ /\ nextId' # nextId => (Deps' # Deps \/ Handled("onRetry"))
        /\ Handled("onRetry") =>
              /\ nextId' = nextId + 1
              /\ \A r \in inflight' \ inflight :
                    Compile(r.st) = Compile(lastFailed.st)
              /\ Deps' = Deps
              /\ search' = search /\ minPrice' = minPrice
              /\ maxPrice' = maxPrice ]_vars

(* the same, with the Retry request compared to the current query state *)
RetryReissuesCurrentQuery ==
    [][ /\ nextId' # nextId => (Deps' # Deps \/ Handled("onRetry"))
        /\ Handled("onRetry") =>
              /\ nextId' = nextId + 1
              /\ \A r \in inflight' \ inflight : Compile(r.st) = Compile(Deps)
              /\ Deps' = Deps
              /\ search' = search /\ minPrice' = minPrice
              /\ maxPrice' = maxPrice ]_vars

(* C14: once a result has been received, the page count shown in the label *)
(* is ceil(totalCount / 10) when totalCount > 0 and 1 when totalCount = 0.   *)
C14_DisplayedPageCount ==
    lastOk.id # 0 =>
        PageLabel[2] = (IF totalCount > 0 THEN Ceil(totalCount, 10) ELSE 1)

C16_LoadingWhileInFlight ==
    inflight # {} => loading = TRUE

(* C17: when the last request in flight completes, the error message is set *)
(* exactly if that request failed; it stays so while nothing is in flight,   *)
(* since error changes only when a request is issued or completes.  Stated   *)
(* for runs in which every request was answered, with a result or an error.  *)
C17_ErrorIffLastCompletedFailed ==
    [][ (inflight # {} /\ inflight' = {} /\ "fetchProducts" \notin uncaught') =>
            (error' # Null <=> lastOk' = lastOk) ]_vars

(* ---- the database column each header of App stands for *)
DbColumn(header) ==
    CASE header = "Name" -> "name"
      [] header = "Category" -> "category"
      [] header = "Price" -> "price"
      [] header = "Stock" -> "stock_quantity"
      [] header = "Created At" -> "created_at"

(* C18: in App, a click on the header of the active sort column while the  *)
(* order is ascending sets the order to descending, and the sort field       *)
(* stored is the header's database column, for each of the five headers.     *)
C18_AppHeaderClickToggles ==
    [][ (/\ Handled("headerClick")
         /\ sortBy = DbColumn(lastEvent'.arg)
         /\ sortOrder = "asc") =>
            (/\ sortOrder' = "desc"
             /\ sortBy' = DbColumn(lastEvent'.arg)) ]_vars

(* the same for the headers other than Stock *)
AppHeaderClickTogglesExceptStock ==
    [][ (/\ Handled("headerClick")
         /\ lastEvent'.arg # "Stock"
         /\ sortBy = DbColumn(lastEvent'.arg)
         /\ sortOrder = "asc") =>
            (/\ sortOrder' = "desc"
             /\ sortBy' = DbColumn(lastEvent'.arg)) ]_vars

(* every header click in App stores the header's database column *)
AppHeaderClickStoresDbColumn ==
    [][ Handled("headerClick") => sortBy' = DbColumn(lastEvent'.arg) ]_vars
====
